---- MODULE Spec2Model ----
(***************************************************************************)
(* Model of infinite_busy_cmd.py: the driver loop main(), the two          *)
(* animations progress_bar_simulation() and spinner(), the optional        *)
(* remote quote fetch fetch_quote(), and the generation of one log line.   *)
(*                                                                         *)
(* Time is counted in integer ticks.  The clock is kept relative to the    *)
(* start of the running animation (only time.time() - start is observed).  *)
(* The quote string uses " - " where the source has an em dash.            *)
(* Every random.random() < chance test is a nondeterministic boolean.      *)
(***************************************************************************)
EXTENDS Integers, Sequences, FiniteSets, TLC

VARIABLES
    pc,             \* position of the program
    requests,       \* TRUE iff "import requests" succeeded (line 22-25)
    use_api,        \* main's parameter use_api
    clear_every,    \* main's parameter clear_every
    warned,         \* the "requests library not found" warning was printed
    line_counter,   \* main's local line_counter
    clears,         \* number of screen clears performed so far
    rollBar,        \* this iteration: random() < PROGRESS_BAR_CHANCE
    rollSpin,       \* this iteration: random() < SPINNER_CHANCE
    rollApi,        \* this iteration: random() < API_QUOTE_FREQ
    resp,           \* this iteration: what requests.get met (NoResp if none)
    q,              \* this iteration: value returned by fetch_quote
    acts,           \* this iteration: output actions performed
    duration,       \* running animation: its duration argument, in ticks
    clock,          \* running animation: time.time() - start, in ticks
    pct,            \* progress bar: percentage of the last rendered frame
    done,           \* progress bar: '#' cells of the last rendered frame
    frames100,      \* progress bar: frames rendered showing 100%
    i,              \* spinner: frame index
    sleptSinceOut,  \* a time.sleep has completed since the last write to stdout
    sigint,         \* a KeyboardInterrupt has been raised
    farewell,       \* number of farewell lines printed
    exit_code,      \* process exit status (Running until the process exits)
    log_line        \* the log line built by the line generator (NoLine if none)

vars == <<pc, requests, use_api, clear_every, warned, line_counter, clears,
          rollBar, rollSpin, rollApi, resp, q, acts, duration, clock, pct,
          done, frames100, i, sleptSinceOut, sigint, farewell, exit_code,
          log_line>>

----------------------------------------------------------------------------
(* Bounds of the model *)

MaxClearEvery == 3      \* --clear-every ranges over -1 .. MaxClearEvery
MaxLines == 6           \* iterations start only while line_counter < MaxLines
MaxDuration == 3        \* animation durations range over 1 .. MaxDuration ticks
MaxDelta == 2           \* one time.sleep advances the clock by 1 .. MaxDelta
MaxJitter == 1          \* between sleeps the clock advances by 0 .. MaxJitter

(* Program constants *)

SHOW_PROGRESS_BARS == TRUE
BAR_WIDTH == 30
BAR_LINES == 3
SPINNER_LINES == 2
PID_LOW == 1000
PID_HIGH == 99999

Running == <<>>         \* exit_code while the process has not exited
Exited(n) == <<n>>      \* exit_code once the process exited with status n

ClearEveryValues == -1 .. MaxClearEvery
Durations == 1 .. MaxDuration
Deltas == 1 .. MaxDelta
Jitters == 0 .. MaxJitter

OutputActions == {"BAR", "SPIN", "QUOTE", "LOG"}

----------------------------------------------------------------------------
(* Python values *)

\* A Python value that is either None or a str (a sequence of pieces).
NoneVal == [isNone |-> TRUE, text |-> <<>>]
StrVal(t) == [isNone |-> FALSE, text |-> t]

\* bool(v) as used by "if q:": None and "" are false.
Truthy(v) == ~v.isNone /\ Len(v.text) > 0

\* How an f-string renders a value: None is rendered as the text "None".
Format(v) == IF v.isNone THEN <<"None">> ELSE v.text

Min(a, b) == IF a <= b THEN a ELSE b

----------------------------------------------------------------------------
(* The remote quote service, as seen by requests.get (line 126) *)

NoResp == [kind |-> "none", status |-> 0, json |-> "none",
           content |-> NoneVal, author |-> NoneVal]

\* requests.get raised instead of returning.
TransportFailures ==
    { [kind |-> k, status |-> 0, json |-> "none",
       content |-> NoneVal, author |-> NoneVal] :
         k \in {"ConnectionError", "Timeout"} }

\* A response with a status other than 200; its body is never read.
Non200Responses ==
    { [kind |-> "http", status |-> s, json |-> "none",
       content |-> NoneVal, author |-> NoneVal] : s \in {404, 500} }

\* A 200 response whose body is not JSON, or is JSON but not an object.
NonObjectBodies ==
    { [kind |-> "http", status |-> 200, json |-> j,
       content |-> NoneVal, author |-> NoneVal] : j \in {"invalid", "array"} }

\* A 200 response whose body is a JSON object; a field that is absent is
\* NoneVal, which is what data.get(field) returns for it.
FieldValues == {NoneVal, StrVal(<<"text">>)}
ObjectBodies ==
    { [kind |-> "http", status |-> 200, json |-> "object",
       content |-> c, author |-> a] : c \in FieldValues, a \in FieldValues }

Responses == TransportFailures \cup Non200Responses \cup NonObjectBodies
                \cup ObjectBodies

\* The exception, if any, that the body of fetch_quote's try block raises.
Raises(r) ==
    IF r.kind \in {"ConnectionError", "Timeout"} THEN r.kind
    ELSE IF r.status = 200 /\ r.json = "invalid" THEN "JSONDecodeError"
    ELSE IF r.status = 200 /\ r.json = "array" THEN "AttributeError"
    ELSE "no"

\* A variant of the except clause that catches timeouts only.
ExceptClause_TimeoutOnly(exc) == exc = "Timeout"

\* A variant of the except clause that catches everything (a bare "except:").
ExceptClause_Bare(exc) == TRUE

\* "except Exception": every exception class except the BaseException-only
\* ones (KeyboardInterrupt) is caught.
ExceptClause(exc) ==
    exc \in {"ConnectionError", "Timeout", "JSONDecodeError", "AttributeError"}

\* fetch_quote(): raised = an exception leaves fetch_quote.
fetch_quote(r) ==
    IF ~requests THEN [raised |-> FALSE, value |-> NoneVal]
    ELSE IF Raises(r) # "no"
         THEN [raised |-> ~ExceptClause(Raises(r)), value |-> NoneVal]
    ELSE IF r.status = 200
         THEN [raised |-> FALSE,
               value |-> StrVal(<<"\"">> \o Format(r.content) \o <<"\" - ">>
                                  \o Format(r.author))]
    ELSE [raised |-> FALSE, value |-> NoneVal]

----------------------------------------------------------------------------
(* Pure helpers of the animations and of the driver loop *)

\* A variant of frac without the min(1.0, ...) clamp.
FracNum_NoClamp(elapsed, d) == elapsed

\* frac = min(1.0, elapsed / duration), kept as the numerator over duration.
FracNum(elapsed, d) == Min(elapsed, d)

\* int(frac * 100)
Pct(elapsed, d) == (FracNum(elapsed, d) * 100) \div d

\* int(frac * width)
DoneCells(elapsed, d) == (FracNum(elapsed, d) * BAR_WIDTH) \div d

\* "if frac >= 1.0: break"
BarDone(elapsed, d) == FracNum(elapsed, d) >= d

\* A variant of the spinner's test that stops one tick early.
SpinContinue_Early(elapsed, d) == elapsed + 1 < d

\* "while time.time() - t0 < duration"
SpinContinue(elapsed, d) == elapsed < d

\* A variant of the clear condition in which 0 means "every line".
ShouldClear_ZeroIsOne(ce, lc) ==
    ce >= 0 /\ lc # 0 /\ lc % (IF ce > 0 THEN ce ELSE 1) = 0

\* The screen-clear condition of line 166.
ShouldClear(ce, lc) == ce # 0 /\ ce > 0 /\ lc # 0 /\ lc % ce = 0

\* A variant of the branch choice that tries the spinner first.
Choice_SpinnerFirst(rb, rs, ra) ==
    IF rs THEN "SPIN"
    ELSE IF SHOW_PROGRESS_BARS /\ rb THEN "BAR"
    ELSE IF use_api /\ requests /\ ra THEN "FETCH"
    ELSE "GEN"

\* Which branch an iteration takes, given the three random tests.
Choice(rb, rs, ra) ==
    IF SHOW_PROGRESS_BARS /\ rb THEN "BAR"
    ELSE IF rs THEN "SPIN"
    ELSE IF use_api /\ requests /\ ra THEN "FETCH"
    ELSE "GEN"

\* A variant of randint whose range starts one too low.
randint_LowOff(a, b) == (a - 1) .. b

\* random.randint(a, b): both ends included.
randint(a, b) == a .. b

----------------------------------------------------------------------------
(* Initial state: the interpreter has imported the module (requests found  *)
(* or not) and the arguments are known; main has not been called yet.      *)

NoLine == [lvl |-> "none", pid |-> 0, sentences |-> 0, cmd |-> FALSE]

Init ==
    /\ pc = "cli"
    /\ requests \in BOOLEAN
    /\ use_api \in BOOLEAN
    /\ clear_every \in ClearEveryValues
    /\ warned = FALSE
    /\ line_counter = 0
    /\ clears = 0
    /\ rollBar = FALSE /\ rollSpin = FALSE /\ rollApi = FALSE
    /\ resp = NoResp
    /\ q = NoneVal
    /\ acts = {}
    /\ duration = 0 /\ clock = 0 /\ pct = 0 /\ done = 0 /\ frames100 = 0
    /\ i = 0
    /\ sleptSinceOut = FALSE
    /\ sigint = FALSE
    /\ farewell = 0
    /\ exit_code = Running
    /\ log_line = NoLine

config == <<requests, clear_every>>
barVars == <<duration, clock, pct, done, frames100>>
rolls == <<rollBar, rollSpin, rollApi>>
endVars == <<sigint, farewell, exit_code>>

----------------------------------------------------------------------------
(* Entry points *)

\* The script is run: --use-api is dropped, with a warning, when requests
\* is missing; then main(use_api, clear_every) is called.
CliStart ==
    /\ pc = "cli"
    /\ use_api' = (use_api /\ requests)
    /\ warned' = (use_api /\ ~requests)
    /\ UNCHANGED sleptSinceOut
    /\ pc' = "top"
    /\ UNCHANGED <<config, line_counter, clears, rolls, resp, q, acts,
                   barVars, i, endVars, log_line>>

\* The module is imported and main(use_api, clear_every) is called directly.
DirectCall ==
    /\ pc = "cli"
    /\ pc' = "top"
    /\ UNCHANGED <<config, use_api, warned, line_counter, clears, rolls, resp,
                   q, acts, barVars, i, sleptSinceOut, endVars, log_line>>

----------------------------------------------------------------------------
(* The driver loop *)

\* Head of an iteration: the occasional screen clear.  The records of the
\* previous iteration are dropped here.
LoopTop ==
    /\ pc = "top"
    /\ line_counter < MaxLines
    /\ IF ShouldClear(clear_every, line_counter)
         THEN clears' = clears + 1 /\ sleptSinceOut' = FALSE
         ELSE UNCHANGED <<clears, sleptSinceOut>>
    /\ rollBar' = FALSE /\ rollSpin' = FALSE /\ rollApi' = FALSE
    /\ resp' = NoResp
    /\ q' = NoneVal
    /\ acts' = {}
    /\ duration' = 0 /\ clock' = 0 /\ pct' = 0 /\ done' = 0 /\ frames100' = 0
    /\ i' = 0
    /\ pc' = "roll"
    /\ UNCHANGED <<config, use_api, warned, line_counter, endVars, log_line>>

\* The random tests of lines 175, 179 and 185, each made only when the
\* ones before it failed, and the call the chosen branch starts with.
Roll ==
    /\ pc = "roll"
    /\ \E rb \in BOOLEAN, rs \in BOOLEAN, ra \in BOOLEAN, d \in Durations :
         LET c == Choice(rb, rs, ra) IN
         /\ rollBar' = rb
         /\ rollSpin' = (c # "BAR" /\ rs)
         /\ rollApi' = (c \notin {"BAR", "SPIN"} /\ use_api /\ requests /\ ra)
         /\ duration' = IF c \in {"BAR", "SPIN"} THEN d ELSE 0
         /\ pc' = CASE c = "BAR" -> "bar"
                    [] c = "SPIN" -> "spin"
                    [] c = "FETCH" -> "fetch"
                    [] OTHER -> "gen"
    /\ clock' = 0
    /\ UNCHANGED <<config, use_api, warned, line_counter, clears, resp, q,
                   acts, pct, done, frames100, i, sleptSinceOut, endVars,
                   log_line>>

\* progress_bar_simulation: one pass of its loop up to the break test; on
\* the break, the closing print(), the return, line_counter += 3, continue.
\* The clock is read at the head of the pass and may have advanced since
\* the last sleep ended.
BarFrame ==
    /\ pc = "bar"
    /\ \E j \in Jitters :
         LET elapsed == clock + j IN
         /\ clock' = elapsed
         /\ pct' = Pct(elapsed, duration)
         /\ done' = DoneCells(elapsed, duration)
         /\ frames100' = frames100
                           + (IF Pct(elapsed, duration) >= 100 THEN 1 ELSE 0)
         /\ IF BarDone(elapsed, duration)
              THEN /\ acts' = acts \cup {"BAR"}
                   /\ line_counter' = line_counter + BAR_LINES
                   /\ pc' = "top"
              ELSE /\ pc' = "bar_sleep"
                   /\ UNCHANGED <<acts, line_counter>>
    /\ sleptSinceOut' = FALSE
    /\ UNCHANGED <<config, use_api, warned, clears, rolls, resp, q, duration,
                   i, endVars, log_line>>

\* progress_bar_simulation: time.sleep(0.06 + random.random() * 0.08)
BarSleep ==
    /\ pc = "bar_sleep"
    /\ \E dt \in Deltas : clock' = clock + dt
    /\ sleptSinceOut' = TRUE
    /\ pc' = "bar"
    /\ UNCHANGED <<config, use_api, warned, line_counter, clears, rolls, resp,
                   q, acts, duration, pct, done, frames100, i, endVars,
                   log_line>>

\* spinner: the while test; then either one frame, or the closing print(),
\* the return, line_counter += 2, continue.
SpinCheck ==
    /\ pc = "spin"
    /\ \E j \in Jitters :
         LET elapsed == clock + j IN
         /\ clock' = elapsed
         /\ IF SpinContinue(elapsed, duration)
              THEN /\ i' = i + 1
                   /\ pc' = "spin_sleep"
                   /\ UNCHANGED <<acts, line_counter>>
              ELSE /\ acts' = acts \cup {"SPIN"}
                   /\ line_counter' = line_counter + SPINNER_LINES
                   /\ pc' = "top"
                   /\ i' = i
    /\ sleptSinceOut' = FALSE
    /\ UNCHANGED <<config, use_api, warned, clears, rolls, resp, q, duration,
                   pct, done, frames100, endVars, log_line>>

\* spinner: time.sleep(0.08)
SpinSleep ==
    /\ pc = "spin_sleep"
    /\ \E dt \in Deltas : clock' = clock + dt
    /\ sleptSinceOut' = TRUE
    /\ pc' = "spin"
    /\ UNCHANGED <<config, use_api, warned, line_counter, clears, rolls, resp,
                   q, acts, duration, pct, done, frames100, i, endVars,
                   log_line>>

\* q = fetch_quote() completes, for any behaviour of the remote service;
\* "if q:" prints the QUOTE line and counts it, otherwise the iteration goes
\* on to the generated log line.  An exception leaving fetch_quote is not
\* caught by main's "except KeyboardInterrupt" and ends the process.
FetchReturn ==
    /\ pc = "fetch"
    /\ \E r \in Responses :
         LET o == fetch_quote(r) IN
         /\ resp' = r
         /\ q' = o.value
         /\ IF o.raised
              THEN /\ pc' = "crashed"
                   /\ exit_code' = Exited(1)
                   /\ UNCHANGED <<acts, line_counter, sleptSinceOut>>
              ELSE IF Truthy(o.value)
              THEN /\ acts' = acts \cup {"QUOTE"}
                   /\ line_counter' = line_counter + 1
                   /\ sleptSinceOut' = FALSE
                   /\ pc' = "tick"
                   /\ UNCHANGED exit_code
              ELSE /\ pc' = "gen"
                   /\ UNCHANGED <<acts, line_counter, sleptSinceOut, exit_code>>
    /\ UNCHANGED <<config, use_api, warned, clears, rolls, barVars, i, sigint,
                   farewell, log_line>>

\* The generated log line is printed and counted (lines 213-226).
LogLine ==
    /\ pc = "gen"
    /\ acts' = acts \cup {"LOG"}
    /\ line_counter' = line_counter + 1
    /\ sleptSinceOut' = FALSE
    /\ pc' = "tick"
    /\ UNCHANGED <<config, use_api, warned, clears, rolls, resp, q, barVars,
                   i, endVars, log_line>>

\* A variant of the end of a QUOTE or log-line iteration without the sleep.
Tick_NoSleep ==
    /\ pc = "tick"
    /\ pc' = "top"
    /\ UNCHANGED <<config, use_api, warned, line_counter, clears, rolls, resp,
                   q, acts, barVars, i, sleptSinceOut, endVars, log_line>>

\* The timed sleep that ends a QUOTE or log-line iteration (lines 191, 228).
Tick ==
    /\ pc = "tick"
    /\ sleptSinceOut' = TRUE
    /\ pc' = "top"
    /\ UNCHANGED <<config, use_api, warned, line_counter, clears, rolls, resp,
                   q, acts, barVars, i, endVars, log_line>>

----------------------------------------------------------------------------
(* Interruption *)

IterationPcs == {"top", "roll", "bar", "bar_sleep", "spin", "spin_sleep",
                 "fetch", "gen", "tick"}

\* Where a KeyboardInterrupt raised at position p is handled: inside
\* fetch_quote's try block it passes the "except Exception" clause only if
\* that clause does not catch it; everywhere else it reaches main's handler.
InterruptTarget(p) ==
    IF p = "fetch" /\ ExceptClause("KeyboardInterrupt") THEN "gen" ELSE "except"

\* The user presses Ctrl-C while an iteration is running.
Interrupt ==
    /\ pc \in IterationPcs
    /\ ~sigint
    /\ sigint' = TRUE
    /\ pc' = InterruptTarget(pc)
    /\ UNCHANGED <<config, use_api, warned, line_counter, clears, rolls, resp,
                   q, acts, barVars, i, sleptSinceOut, farewell, exit_code,
                   log_line>>

\* main's "except KeyboardInterrupt": print the farewell line and return;
\* the script then ends with status 0.
Farewell ==
    /\ pc = "except"
    /\ farewell' = farewell + 1
    /\ sleptSinceOut' = FALSE
    /\ exit_code' = Exited(0)
    /\ pc' = "done"
    /\ UNCHANGED <<config, use_api, warned, line_counter, clears, rolls, resp,
                   q, acts, barVars, i, sigint, log_line>>

----------------------------------------------------------------------------
(* The line generator: the content of one log line (lines 194-211) *)

error_levels == {"INFO", "DEBUG", "WARN", "ERROR", "TRACE", "CRITICAL"}

GenLine ==
    /\ pc = "gen"
    /\ log_line = NoLine
    /\ \E two \in BOOLEAN, lvl \in error_levels,
          pid \in randint(PID_LOW, PID_HIGH), cmd \in BOOLEAN :
         log_line' = [lvl |-> lvl, pid |-> pid,
                      sentences |-> IF two THEN 2 ELSE 1, cmd |-> cmd]
    /\ UNCHANGED <<pc, config, use_api, warned, line_counter, clears, rolls,
                   resp, q, acts, barVars, i, sleptSinceOut, endVars>>

\* The driver is in its first iteration and has reached the line generator.
InitLine ==
    /\ pc = "gen"
    /\ requests = FALSE
    /\ use_api = FALSE
    /\ clear_every = 0
    /\ warned = FALSE
    /\ line_counter = 0
    /\ clears = 0
    /\ rollBar = FALSE /\ rollSpin = FALSE /\ rollApi = FALSE
    /\ resp = NoResp
    /\ q = NoneVal
    /\ acts = {}
    /\ duration = 0 /\ clock = 0 /\ pct = 0 /\ done = 0 /\ frames100 = 0
    /\ i = 0
    /\ sleptSinceOut = FALSE
    /\ sigint = FALSE
    /\ farewell = 0
    /\ exit_code = Running
    /\ log_line = NoLine

----------------------------------------------------------------------------
(* Specifications *)

Next ==
    \/ CliStart
    \/ DirectCall
    \/ LoopTop
    \/ Roll
    \/ BarFrame
    \/ BarSleep
    \/ SpinCheck
    \/ SpinSleep
    \/ FetchReturn
    \/ LogLine
    \/ Tick
    \/ Interrupt
    \/ Farewell

Spec == Init /\ [][Next]_vars

\* Steps of the program itself are taken whenever they can be: the
\* interpreter keeps running.  Only the user's interrupt is not forced.
FairSpec ==
    /\ Spec
    /\ WF_vars(BarFrame) /\ WF_vars(BarSleep)
    /\ WF_vars(SpinCheck) /\ WF_vars(SpinSleep)
    /\ WF_vars(Farewell)

NextLine == GenLine

SpecLine == InitLine /\ [][NextLine]_vars

----------------------------------------------------------------------------
(* Properties *)

FetchFailures == TransportFailures \cup Non200Responses

\* A 200 response whose body is not a quote object.
Malformed(r) ==
    \/ r \in NonObjectBodies
    \/ r \in ObjectBodies /\ (r.content.isNone \/ r.author.isNone)

\* An iteration has run to its end and the next one has not started.
IterationEnded == pc = "top" /\ line_counter > 0

AnimationPcs == {"bar", "bar_sleep", "spin", "spin_sleep"}

\* C1: with clear_every = 0 the screen is never cleared, whatever value
\* line_counter reaches and whatever the iterations did.
C1_NeverClearsWhenZero == clear_every = 0 => clears = 0

C1_Witness == clear_every = 0 /\ pc = "roll" /\ line_counter >= 4

\* C2: when the remote fetch fails (connection error, timeout, non-200
\* status), fetch_quote returns None without raising, the loop neither
\* crashes nor reaches the interrupt handler on that account, no QUOTE line
\* is printed, and the iteration goes on to print a generated log line.
C2_FetchFailureFallsBack ==
    resp \in FetchFailures =>
        /\ q = NoneVal
        /\ "QUOTE" \notin acts
        /\ pc \in {"gen", "tick", "top", "except", "done"}
        /\ (pc \in {"except", "done"} => sigint)
        /\ (pc \in {"tick", "top"} => acts = {"LOG"})

C2_Witness == resp \in FetchFailures /\ pc = "top" /\ acts = {"LOG"}

\* C3 (as claimed): after any failed fetch, a malformed 200 body included,
\* no QUOTE line is printed and the iteration prints a generated log line.
C3_MalformedIsNoQuote ==
    (resp \in FetchFailures \/ Malformed(resp)) =>
        /\ "QUOTE" \notin acts
        /\ (pc \in {"tick", "top"} => acts = {"LOG"})

\* C4: every frame of the progress bar shows at most 100%, exactly one
\* frame shows 100%, and it is the last one: the bar is not redrawn after.
C4_BarReaches100Once ==
    /\ pct <= 100
    /\ frames100 <= 1
    /\ (frames100 = 1 => pct = 100 /\ pc \notin {"bar", "bar_sleep"})
    /\ ("BAR" \in acts => frames100 = 1)
    /\ (pc = "bar_sleep" => pct < 100)

C4_Witness == "BAR" \in acts /\ frames100 = 1 /\ clock > duration /\ duration >= 2

\* C5: the loop is left only through an interrupt; an interrupt at any
\* point of an iteration reaches main's handler, the farewell line is
\* printed exactly once, main returns with exit status 0, and nothing
\* happens after the farewell.
C5_OnlyInterruptEndsLoop ==
    /\ [](pc # "crashed")
    /\ [](pc \in {"except", "done"} <=> sigint)
    /\ [](farewell <= 1 /\ (pc = "done" <=> farewell = 1))
    /\ [](exit_code = IF pc = "done" THEN Exited(0) ELSE Running)
    /\ [][farewell = 1 => UNCHANGED vars]_vars
    /\ (sigint ~> (pc = "done" /\ farewell = 1))

\* The interrupt arrived while fetch_quote was waiting for the response.
C5_Witness ==
    pc = "done" /\ farewell = 1 /\ rollApi /\ resp = NoResp /\ acts = {}

\* C6 (as claimed): with clear_every = N > 0, whenever an iteration is about
\* to produce output, one clear has been performed for each multiple of N
\* that line_counter has reached.
C6_ClearAtEveryMultiple ==
    (clear_every > 0 /\ pc = "roll") => clears = line_counter \div clear_every

\* C7 (as claimed): the pid of a generated log line is in [1000, 99999).
C7_PidHalfOpen ==
    log_line # NoLine => 1000 <= log_line.pid /\ log_line.pid < 99999

\* C7 (amended): the pid of a generated log line is an integer with
\* 1000 <= pid <= 99999, both ends included.
C7_PidClosedRange ==
    log_line # NoLine => PID_LOW <= log_line.pid /\ log_line.pid <= PID_HIGH

C7_Witness == log_line # NoLine /\ log_line.pid = 99999

\* The one output action the random tests of an iteration call for.
Expected ==
    IF rollBar THEN "BAR"
    ELSE IF rollSpin THEN "SPIN"
    ELSE IF rollApi /\ Truthy(q) THEN "QUOTE"
    ELSE "LOG"

\* C8: an iteration performs at most one output action while it runs and
\* exactly one by its end, the first in the order bar, spinner, QUOTE, log
\* line that its random tests allow; a QUOTE line needs use_api, the
\* requests module and a quote returned by the fetch.
C8_ExactlyOneActionInOrder ==
    /\ Cardinality(acts) <= 1
    /\ (IterationEnded => acts = {Expected})
    /\ ("QUOTE" \in acts => use_api /\ requests /\ rollApi /\ Truthy(q))
    /\ (rollApi => use_api /\ requests /\ ~rollBar /\ ~rollSpin)
    /\ (rollSpin => ~rollBar)

C8_Witness == IterationEnded /\ acts = {"QUOTE"} /\ rollApi /\ Truthy(q)

\* C9 (as claimed): whichever output action an iteration took, a timed
\* sleep has been performed after it when the next iteration starts.
C9_SleepAfterEveryAction == IterationEnded => sleptSinceOut

\* C9 (amended): a timed sleep follows the output of an iteration exactly
\* when the iteration printed a QUOTE line or a generated log line; after a
\* progress bar or a spinner the next iteration starts without a sleep.
C9_SleepAfterLinesOnly ==
    IterationEnded => (sleptSinceOut <=> acts \cap {"QUOTE", "LOG"} # {})

C9_Witness == IterationEnded /\ acts = {"LOG"} /\ sleptSinceOut /\ line_counter >= 2

\* C10: an animation that has returned did so with at least its duration
\* elapsed, and every animation that is running eventually stops running.
C10_AnimationsBlockAndTerminate ==
    /\ [](acts \cap {"BAR", "SPIN"} # {} => duration > 0 /\ clock >= duration)
    /\ [](pc \in AnimationPcs => duration > 0)
    /\ ((pc \in {"bar", "bar_sleep"}) ~> (pc \notin {"bar", "bar_sleep"}))
    /\ ((pc \in {"spin", "spin_sleep"}) ~> (pc \notin {"spin", "spin_sleep"}))

C10_Witness == acts = {"SPIN"} /\ pc = "top" /\ clock >= duration /\ i >= 2

====
